---- MODULE Spec2Model ----
(***************************************************************************)
(* Model of the mutation-rate calculator: the Needleman-Wunsch engine of   *)
(* mut_calc/num.py (fill_matrix, trace_matrix), the FASTA parser parse_fa, *)
(* the comparator of mut_calc/metrics.py and MutationRateApp.run of        *)
(* main.py.                                                                *)
(*                                                                         *)
(* Python arrays are 0-based; TLA+ sequences are 1-based, so the element   *)
(* seq1_array[j - 1] of the source is seq1_array[j] here.  The matrix is a *)
(* function over 0-based row and column indices, matrix[i][j].  Strings    *)
(* are sequences of one-character strings.  The diagnostic writes of       *)
(* fill_matrix to stdout are not state any operation reads and are left    *)
(* out.                                                                    *)
(***************************************************************************)
EXTENDS Integers, Sequences, FiniteSets

VARIABLES
    seq1_array,     \* sequence 1 (columns of the matrix)
    seq2_array,     \* sequence 2 (rows of the matrix)
    scoring,        \* [match, mismatch, indel] passed to fill_matrix
    matrix,         \* the scoring matrix, matrix[i][j]
    i, j,           \* cursor of trace_matrix
    aligned_seq1,   \* emissions of trace_matrix, end to start
    aligned_seq2,
    result,         \* what the last call returned or raised
    pc,             \* position of the program
    fs,             \* the file at fasta_path: [exists, text]
    ref_id,         \* MutationRateApp.ref_id
    seqs,           \* run(): the {header: sequence} dictionary, in insertion order
    stats,          \* run(): what compare_to_reference returned
    stdout,         \* the rows of the table run() printed
    csv,            \* the rows run() wrote to out_csv
    exit_code       \* the value run() returned, -1 before it returns

vars == <<seq1_array, seq2_array, scoring, matrix, i, j, aligned_seq1,
          aligned_seq2, result, pc, fs, ref_id, seqs, stats, stdout, csv,
          exit_code>>

nwVars == <<seq1_array, seq2_array, scoring, matrix, i, j, aligned_seq1,
            aligned_seq2, result>>

appVars == <<fs, ref_id, seqs, stats, stdout, csv, exit_code>>

GAP == "-"

\* What a call handed to its caller: a value, or the exception it raised.
NoResult == [error |-> "", value |-> <<>>]

Returned(v) == [error |-> "", value |-> v]

Raised(e) == [error |-> e, value |-> <<>>]

(***************************************************************************)
(* Bounds and input sets.                                                  *)
(***************************************************************************)
MaxLen == 2

ArbLen == 2

Alphabet == {"A", "G"}

RECURSIVE SeqsUpTo(_, _)
SeqsUpTo(S, n) ==
    IF n = 0 THEN {<<>>}
    ELSE LET shorter == SeqsUpTo(S, n - 1)
         IN  shorter \cup {Append(s, c) : s \in {t \in shorter : Len(t) = n - 1}, c \in S}

BoundedSeqs == SeqsUpTo(Alphabet, MaxLen)

ScenarioSeqs == { <<"A", "T", "G", "C">>, <<"A", "T", "G", "G">>, <<"A", "B", "C">> }

InputSeqs == BoundedSeqs \cup ScenarioSeqs

DefaultScoring == [match |-> 1, mismatch |-> -1, indel |-> -1]

Scorings == [match : {1, 2}, mismatch : {-1, 0}, indel : {-1, 0, 1}]

Max(a, b) == IF a >= b THEN a ELSE b

Rows(m) == Cardinality(DOMAIN m)

Cols(m) == Cardinality(DOMAIN m[0])

Zeros(rows, cols) == [r \in 0 .. rows - 1 |-> [c \in 0 .. cols - 1 |-> 0]]

(***************************************************************************)
(* fill_matrix                                                             *)
(***************************************************************************)
\* InitFirstColumn without the running sum: every cell gets one indel.
InitFirstColumn_NoSum(m, r, indel) ==
    [x \in DOMAIN m |-> IF x >= r THEN [m[x] EXCEPT ![0] = indel] ELSE m[x]]

RECURSIVE InitFirstColumn(_, _, _)
InitFirstColumn(m, r, indel) ==
    IF r >= Rows(m) THEN m
    ELSE InitFirstColumn([m EXCEPT ![r][0] = m[r - 1][0] + indel], r + 1, indel)

RECURSIVE InitFirstRow(_, _, _)
InitFirstRow(m, c, indel) ==
    IF c >= Cols(m) THEN m
    ELSE InitFirstRow([m EXCEPT ![0][c] = m[0][c - 1] + indel], c + 1, indel)

\* CellScore that leaves the up score out of the maximum.
CellScore_NoUp(m, s1, s2, r, c, sc) ==
    LET score_diagonal == IF s2[r] = s1[c]
                          THEN m[r - 1][c - 1] + sc.match
                          ELSE m[r - 1][c - 1] + sc.mismatch
        score_left == m[r][c - 1] + sc.indel
    IN  Max(score_diagonal, score_left)

CellScore(m, s1, s2, r, c, sc) ==
    LET score_diagonal == IF s2[r] = s1[c]
                          THEN m[r - 1][c - 1] + sc.match
                          ELSE m[r - 1][c - 1] + sc.mismatch
        score_up   == m[r - 1][c] + sc.indel
        score_left == m[r][c - 1] + sc.indel
    IN  Max(score_diagonal, Max(score_up, score_left))

\* The double loop.  Indexing a sequence past its end raises IndexError and
\* leaves the matrix as filled so far.
RECURSIVE FillCells(_, _, _, _, _, _)
FillCells(m, s1, s2, r, c, sc) ==
    IF r >= Rows(m) THEN [matrix |-> m, raised |-> FALSE]
    ELSE IF c >= Cols(m) THEN FillCells(m, s1, s2, r + 1, 1, sc)
    ELSE IF r > Len(s2) \/ c > Len(s1) THEN [matrix |-> m, raised |-> TRUE]
    ELSE FillCells([m EXCEPT ![r][c] = CellScore(m, s1, s2, r, c, sc)],
                   s1, s2, r, c + 1, sc)

fill_matrix(m, s1, s2, sc) ==
    FillCells(InitFirstRow(InitFirstColumn(m, 1, sc.indel), 1, sc.indel),
              s1, s2, 1, 1, sc)

(***************************************************************************)
(* trace_matrix                                                            *)
(***************************************************************************)
\* ChooseMove that tests the left move before the diagonal.
ChooseMove_LeftFirst(m, r, c) ==
    IF r = 0 THEN "top"
    ELSE IF c = 0 THEN "side"
    ELSE LET current == m[r][c]
             diag    == m[r - 1][c - 1]
             left    == m[r][c - 1]
         IN  IF current = left - 1 THEN "left"
             ELSE IF current = diag + 1 \/ current = diag - 1 THEN "diag"
             ELSE "up"

\* The branch one iteration of the while loop takes at cursor (r, c).
ChooseMove(m, r, c) ==
    IF r = 0 THEN "top"
    ELSE IF c = 0 THEN "side"
    ELSE LET current == m[r][c]
             diag    == m[r - 1][c - 1]
             up      == m[r - 1][c]
             left    == m[r][c - 1]
         IN  IF current = diag + 1 \/ current = diag - 1 THEN "diag"
             ELSE IF current = left - 1 THEN "left"
             ELSE "up"

\* MoveEffect whose left move appends a gap marker to both sequences.
MoveEffect_LeftDropsSymbol(mv, s1, s2, r, c) ==
    LET use1 == mv \in {"top", "diag", "left"}
        use2 == mv \in {"side", "diag", "up"}
    IN  IF (use1 /\ c > Len(s1)) \/ (use2 /\ r > Len(s2))
        THEN [raised |-> TRUE, a1 |-> GAP, a2 |-> GAP, i |-> r, j |-> c]
        ELSE [raised |-> FALSE,
              a1 |-> IF use1 /\ mv # "left" THEN s1[c] ELSE GAP,
              a2 |-> IF use2 THEN s2[r] ELSE GAP,
              i  |-> IF use2 THEN r - 1 ELSE r,
              j  |-> IF use1 THEN c - 1 ELSE c]

\* MoveEffect whose up move forgets to decrement i.
MoveEffect_UpStays(mv, s1, s2, r, c) ==
    LET use1 == mv \in {"top", "diag", "left"}
        use2 == mv \in {"side", "diag", "up"}
    IN  IF (use1 /\ c > Len(s1)) \/ (use2 /\ r > Len(s2))
        THEN [raised |-> TRUE, a1 |-> GAP, a2 |-> GAP, i |-> r, j |-> c]
        ELSE [raised |-> FALSE,
              a1 |-> IF use1 THEN s1[c] ELSE GAP,
              a2 |-> IF use2 THEN s2[r] ELSE GAP,
              i  |-> IF use2 /\ mv # "up" THEN r - 1 ELSE r,
              j  |-> IF use1 THEN c - 1 ELSE c]

\* What the branch does: the symbols appended and the cursor's decrement.
\* An index past the end of a sequence raises IndexError.
MoveEffect(mv, s1, s2, r, c) ==
    LET use1 == mv \in {"top", "diag", "left"}
        use2 == mv \in {"side", "diag", "up"}
    IN  IF (use1 /\ c > Len(s1)) \/ (use2 /\ r > Len(s2))
        THEN [raised |-> TRUE, a1 |-> GAP, a2 |-> GAP, i |-> r, j |-> c]
        ELSE [raised |-> FALSE,
              a1 |-> IF use1 THEN s1[c] ELSE GAP,
              a2 |-> IF use2 THEN s2[r] ELSE GAP,
              i  |-> IF use2 THEN r - 1 ELSE r,
              j  |-> IF use1 THEN c - 1 ELSE c]

RECURSIVE Reverse(_)
Reverse(s) == IF s = <<>> THEN <<>> ELSE Append(Reverse(Tail(s)), Head(s))

(***************************************************************************)
(* Actions of the alignment engine.                                        *)
(***************************************************************************)
FillMatrix ==
    /\ pc = "fill"
    /\ LET r == fill_matrix(matrix, seq1_array, seq2_array, scoring)
       IN  /\ matrix' = r.matrix
           /\ IF r.raised
              THEN pc' = "raised" /\ result' = Raised("IndexError")
              ELSE pc' = "trace" /\ result' = result
    /\ UNCHANGED <<seq1_array, seq2_array, scoring, i, j, aligned_seq1, aligned_seq2>>
    /\ UNCHANGED appVars

TraceInit ==
    /\ pc = "trace"
    /\ i' = Rows(matrix) - 1
    /\ j' = Cols(matrix) - 1
    /\ aligned_seq1' = <<>>
    /\ aligned_seq2' = <<>>
    /\ pc' = "trace_loop"
    /\ UNCHANGED <<seq1_array, seq2_array, scoring, matrix, result>>
    /\ UNCHANGED appVars

TraceLoop ==
    /\ pc = "trace_loop"
    /\ (i > 0 \/ j > 0)
    /\ LET e == MoveEffect(ChooseMove(matrix, i, j), seq1_array, seq2_array, i, j)
       IN  IF e.raised
           THEN /\ pc' = "raised"
                /\ result' = Raised("IndexError")
                /\ UNCHANGED <<i, j, aligned_seq1, aligned_seq2>>
           ELSE /\ aligned_seq1' = Append(aligned_seq1, e.a1)
                /\ aligned_seq2' = Append(aligned_seq2, e.a2)
                /\ i' = e.i
                /\ j' = e.j
                /\ UNCHANGED <<pc, result>>
    /\ UNCHANGED <<seq1_array, seq2_array, scoring, matrix>>
    /\ UNCHANGED appVars

TraceReturn ==
    /\ pc = "trace_loop"
    /\ ~(i > 0 \/ j > 0)
    /\ result' = Returned(<<Reverse(aligned_seq1), Reverse(aligned_seq2)>>)
    /\ pc' = "done"
    /\ UNCHANGED <<seq1_array, seq2_array, scoring, matrix, i, j, aligned_seq1, aligned_seq2>>
    /\ UNCHANGED appVars

\* The application's variables while only the alignment engine runs.
AppIdle ==
    /\ fs = [exists |-> FALSE, text |-> <<>>]
    /\ ref_id = <<>>
    /\ seqs = <<>> /\ stats = <<>>
    /\ stdout = <<>> /\ csv = <<>>
    /\ exit_code = -1

\* fill_matrix then trace_matrix on a zero matrix of the documented shape.
Init ==
    /\ seq1_array \in InputSeqs
    /\ seq2_array \in InputSeqs
    /\ scoring \in Scorings
    /\ matrix = Zeros(Len(seq2_array) + 1, Len(seq1_array) + 1)
    /\ i = 0 /\ j = 0
    /\ aligned_seq1 = <<>> /\ aligned_seq2 = <<>>
    /\ result = NoResult
    /\ pc = "fill"
    /\ AppIdle

Next == FillMatrix \/ TraceInit \/ TraceLoop \/ TraceReturn

Spec == Init /\ [][Next]_vars

(***************************************************************************)
(* trace_matrix on a matrix of the documented shape with arbitrary cells.  *)
(***************************************************************************)
CellVals == {0, 1}

Word1 == <<"A", "T", "G", "C">>

Word2 == <<"C", "A", "T", "G">>

WordPrefix(w, n) == [p \in 1 .. n |-> w[((p - 1) % Len(w)) + 1]]

InitTrace ==
    /\ seq1_array \in {WordPrefix(Word1, n) : n \in 0 .. ArbLen}
    /\ seq2_array \in {WordPrefix(Word2, n) : n \in 0 .. ArbLen}
    /\ scoring = DefaultScoring
    /\ matrix \in [0 .. Len(seq2_array) -> [0 .. Len(seq1_array) -> CellVals]]
    /\ i = 0 /\ j = 0
    /\ aligned_seq1 = <<>> /\ aligned_seq2 = <<>>
    /\ result = NoResult
    /\ pc = "trace"
    /\ AppIdle

NextTrace == TraceInit \/ TraceLoop \/ TraceReturn

SpecTrace == InitTrace /\ [][NextTrace]_vars

\* The traceback run to completion: the program is single-threaded and
\* synchronous, so a loop that can take a step takes it.
LiveTrace == InitTrace /\ [][NextTrace]_vars /\ WF_vars(NextTrace)

(***************************************************************************)
(* fill_matrix then trace_matrix on a zero matrix of any shape.            *)
(***************************************************************************)
InitDim ==
    /\ seq1_array \in BoundedSeqs
    /\ seq2_array \in BoundedSeqs
    /\ scoring \in Scorings
    /\ \E rows \in 1 .. MaxLen + 2, cols \in 1 .. MaxLen + 2 : matrix = Zeros(rows, cols)
    /\ i = 0 /\ j = 0
    /\ aligned_seq1 = <<>> /\ aligned_seq2 = <<>>
    /\ result = NoResult
    /\ pc = "fill"
    /\ AppIdle

NextDim == FillMatrix \/ TraceInit \/ TraceLoop \/ TraceReturn

SpecDim == InitDim /\ [][NextDim]_vars

(***************************************************************************)
(* parse_fa.  The text is a sequence of characters; a dictionary is the    *)
(* sequence of its [id, seq] items in insertion order.                     *)
(***************************************************************************)
NL == "\n"

IsSpace(c) == c \in {" ", NL, "\t", "\r"}

LowerCase == <<"a", "c", "g", "t", "e", "f", "x">>

UpperCase == <<"A", "C", "G", "T", "E", "F", "X">>

Upper(c) ==
    IF \E k \in 1 .. Len(LowerCase) : LowerCase[k] = c
    THEN UpperCase[CHOOSE k \in 1 .. Len(LowerCase) : LowerCase[k] = c]
    ELSE c

\* The least index >= from at which text holds c, Len(text) + 1 when none.
RECURSIVE IndexOf(_, _, _)
IndexOf(text, c, from) ==
    IF from > Len(text) THEN Len(text) + 1
    ELSE IF text[from] = c THEN from
    ELSE IndexOf(text, c, from + 1)

\* re.findall(r">(.*?)\n([^>]*)", text, flags=re.DOTALL) from position from:
\* a match starts at a ">", its header runs to the first newline after it and
\* its body to the next ">" or the end; the search resumes where it ended.
RECURSIVE FindAll(_, _)
FindAll(text, from) ==
    LET s  == IndexOf(text, ">", from)
        nl == IndexOf(text, NL, s + 1)
        e  == IndexOf(text, ">", nl + 1)
    IN  IF s > Len(text) \/ nl > Len(text) THEN <<>>
        ELSE << [header |-> SubSeq(text, s + 1, nl - 1),
                 seq    |-> SubSeq(text, nl + 1, e - 1)] >> \o FindAll(text, e)

RECURSIVE LStrip(_)
LStrip(h) == IF h # <<>> /\ IsSpace(Head(h)) THEN LStrip(Tail(h)) ELSE h

\* re.match(r"^(\S+)", header.strip()): the first token, "UNKNOWN" when the
\* stripped header is empty.
SeqId(header) ==
    LET stripped == LStrip(header)
        stop     == IF \E k \in 1 .. Len(stripped) : IsSpace(stripped[k])
                    THEN CHOOSE k \in 1 .. Len(stripped) :
                             /\ IsSpace(stripped[k])
                             /\ \A x \in 1 .. k - 1 : ~IsSpace(stripped[x])
                    ELSE Len(stripped) + 1
    IN  IF stripped = <<>> THEN <<"U", "N", "K", "N", "O", "W", "N">>
        ELSE SubSeq(stripped, 1, stop - 1)

\* re.sub(r"\s+", "", seq).upper()
CleanSeq(seq) ==
    LET kept == SelectSeq(seq, LAMBDA c : ~IsSpace(c))
    IN  [k \in 1 .. Len(kept) |-> Upper(kept[k])]

parse_fa(fasta_str) ==
    LET entries   == FindAll(fasta_str, 1)
        headers   == [k \in 1 .. Len(entries) |-> SeqId(entries[k].header)]
        sequences == [k \in 1 .. Len(entries) |-> CleanSeq(entries[k].seq)]
    IN  IF headers = <<>>
        THEN Raised("ValueError")
        ELSE Returned([headers |-> headers, sequences |-> sequences])

\* {headers[i]: ''.join(sequences[i]) for i in range(len(headers))}: a key
\* keeps the position of its first occurrence and the value of its last.
BuildDict(headers, sequences) ==
    LET first == SelectSeq([k \in 1 .. Len(headers) |-> k],
                           LAMBDA k : \A x \in 1 .. k - 1 : headers[x] # headers[k])
        last(h) == CHOOSE k \in 1 .. Len(headers) :
                       /\ headers[k] = h
                       /\ \A x \in k + 1 .. Len(headers) : headers[x] # h
    IN  [n \in 1 .. Len(first) |->
            [id |-> headers[first[n]], seq |-> sequences[last(headers[first[n]])]]]

Keys(d) == {d[k].id : k \in 1 .. Len(d)}

Lookup(d, key) == d[CHOOSE k \in 1 .. Len(d) : d[k].id = key].seq

(***************************************************************************)
(* compare_to_reference                                                    *)
(***************************************************************************)
\* CompareCounts that skips a position only when both symbols are gaps.
RECURSIVE CompareCounts_BothGaps(_, _, _, _)
CompareCounts_BothGaps(seq, ref, k, acc) ==
    IF k > Len(seq) \/ k > Len(ref) THEN acc
    ELSE IF seq[k] = GAP /\ ref[k] = GAP
         THEN CompareCounts_BothGaps(seq, ref, k + 1, acc)
         ELSE CompareCounts_BothGaps(seq, ref, k + 1,
                  [compared   |-> acc.compared + 1,
                   mismatches |-> IF seq[k] # ref[k] THEN acc.mismatches + 1
                                                     ELSE acc.mismatches])

\* The loop over zip(seq, ref), from position k with the counts so far.
RECURSIVE CompareCounts(_, _, _, _)
CompareCounts(seq, ref, k, acc) ==
    IF k > Len(seq) \/ k > Len(ref) THEN acc
    ELSE IF seq[k] = GAP \/ ref[k] = GAP
         THEN CompareCounts(seq, ref, k + 1, acc)
         ELSE CompareCounts(seq, ref, k + 1,
                  [compared   |-> acc.compared + 1,
                   mismatches |-> IF seq[k] # ref[k] THEN acc.mismatches + 1
                                                     ELSE acc.mismatches])

\* round(mismatches / compared, 6) in millionths, 0.0 when nothing was
\* compared.  The quotient is never halfway between two millionths for
\* compared < 128, so the rounding mode does not show.
MutationRate(mismatches, compared) ==
    IF compared = 0 THEN 0
    ELSE (2 * 1000000 * mismatches + compared) \div (2 * compared)

compare_to_reference(d, ref) ==
    IF ref \notin Keys(d)
    THEN Raised("KeyError")
    ELSE Returned([n \in 1 .. Len(d) |->
             LET cnt == CompareCounts(d[n].seq, Lookup(d, ref), 1,
                                      [compared |-> 0, mismatches |-> 0])
             IN  [id             |-> d[n].id,
                  length         |-> Len(d[n].seq),
                  compared_sites |-> cnt.compared,
                  mismatches     |-> cnt.mismatches,
                  mutation_rate  |-> MutationRate(cnt.mismatches, cnt.compared)]])

(***************************************************************************)
(* MutationRateApp.run                                                     *)
(***************************************************************************)
\* mut_calc.read.read_fa: the text of the file, FileNotFoundError when there
\* is none.
read_fa(file) ==
    IF file.exists THEN Returned(file.text) ELSE Raised("FileNotFoundError")

\* Code points of the characters an identifier of the model can hold.
CodePoint(c) ==
    CASE c = "1" -> 49  [] c = "K" -> 75  [] c = "N" -> 78  [] c = "O" -> 79
      [] c = "R" -> 82  [] c = "S" -> 83  [] c = "U" -> 85  [] c = "W" -> 87
      [] c = "e" -> 101 [] c = "f" -> 102 [] c = "x" -> 120

\* Python's str order: by code point, a proper prefix first.
RECURSIVE StrLess(_, _)
StrLess(a, b) ==
    IF b = <<>> THEN FALSE
    ELSE IF a = <<>> THEN TRUE
    ELSE IF Head(a) # Head(b) THEN CodePoint(Head(a)) < CodePoint(Head(b))
    ELSE StrLess(Tail(a), Tail(b))

\* sort_values("id") of rows with distinct ids.
SortById(rows) ==
    LET rank(n) == Cardinality({k \in 1 .. Len(rows) : StrLess(rows[k].id, rows[n].id)})
    IN  [p \in 1 .. Len(rows) |-> rows[CHOOSE n \in 1 .. Len(rows) : rank(n) = p - 1]]

\* The first try block and the dictionary built from what it parsed.
RunRead ==
    /\ pc = "run"
    /\ LET formatted_fasta == read_fa(fs)
           parsed == parse_fa(formatted_fasta.value)
       IN  IF formatted_fasta.error = "FileNotFoundError"
           THEN exit_code' = 2 /\ pc' = "exited" /\ seqs' = seqs
           ELSE IF parsed.error = "ValueError"
           THEN exit_code' = 4 /\ pc' = "exited" /\ seqs' = seqs
           ELSE /\ seqs' = BuildDict(parsed.value.headers, parsed.value.sequences)
                /\ pc' = "compare"
                /\ exit_code' = exit_code
    /\ UNCHANGED <<fs, ref_id, stats, stdout, csv>>
    /\ UNCHANGED nwVars

\* The second try block.
RunCompare ==
    /\ pc = "compare"
    /\ LET r == compare_to_reference(seqs, ref_id)
       IN  IF r.error = "KeyError"
           THEN exit_code' = 3 /\ pc' = "exited" /\ stats' = stats
           ELSE stats' = r.value /\ pc' = "report" /\ exit_code' = exit_code
    /\ UNCHANGED <<fs, ref_id, seqs, stdout, csv>>
    /\ UNCHANGED nwVars

\* The table, sorted by id, printed and written to out_csv.
RunReport ==
    /\ pc = "report"
    /\ LET df == SortById(stats)
       IN  stdout' = df /\ csv' = df
    /\ exit_code' = 0
    /\ pc' = "exited"
    /\ UNCHANGED <<fs, ref_id, seqs, stats>>
    /\ UNCHANGED nwVars

MaxLines == 4

FileLines == { <<">", "R", "e", "f">>,
               <<">", "S", "1">>,
               <<">", " ", "S", "1", " ", "x">>,
               <<">">>,
               <<"A", "T", "G", "C">>,
               <<"A", "T", "-", "T">>,
               <<"a", "t">>,
               <<>> }

RECURSIVE JoinLines(_)
JoinLines(ls) ==
    IF ls = <<>> THEN <<>> ELSE Head(ls) \o <<NL>> \o JoinLines(Tail(ls))

RefIds == { <<"R", "e", "f">>, <<"S", "1">>, <<"S", "e", "q", "1">> }

InitApp ==
    /\ \/ fs = [exists |-> FALSE, text |-> <<>>]
       \/ \E ls \in SeqsUpTo(FileLines, MaxLines) :
              fs = [exists |-> TRUE, text |-> JoinLines(ls)]
    /\ ref_id \in RefIds
    /\ seqs = <<>> /\ stats = <<>>
    /\ stdout = <<>> /\ csv = <<>>
    /\ exit_code = -1
    /\ pc = "run"
    /\ seq1_array = <<>> /\ seq2_array = <<>>
    /\ scoring = DefaultScoring
    /\ matrix = Zeros(1, 1)
    /\ i = 0 /\ j = 0
    /\ aligned_seq1 = <<>> /\ aligned_seq2 = <<>>
    /\ result = NoResult

NextApp == RunRead \/ RunCompare \/ RunReport

SpecApp == InitApp /\ [][NextApp]_vars

(***************************************************************************)
(* Properties of the alignment engine.                                     *)
(***************************************************************************)
ShapeOK == Rows(matrix) = Len(seq2_array) + 1 /\ Cols(matrix) = Len(seq1_array) + 1

ColumnScore(a, b, sc) ==
    IF a = GAP \/ b = GAP THEN sc.indel
    ELSE IF a = b THEN sc.match ELSE sc.mismatch

RECURSIVE AlignmentScore(_, _, _)
AlignmentScore(a1, a2, sc) ==
    IF a1 = <<>> \/ a2 = <<>> THEN 0
    ELSE ColumnScore(Head(a1), Head(a2), sc) + AlignmentScore(Tail(a1), Tail(a2), sc)

\* The best score of a global alignment of the first p symbols of s1 with the
\* first q symbols of s2.
RECURSIVE OptScore(_, _, _, _, _)
OptScore(s1, s2, p, q, sc) ==
    IF p = 0 THEN q * sc.indel
    ELSE IF q = 0 THEN p * sc.indel
    ELSE Max(OptScore(s1, s2, p - 1, q - 1, sc) + ColumnScore(s1[p], s2[q], sc),
             Max(OptScore(s1, s2, p - 1, q, sc) + sc.indel,
                 OptScore(s1, s2, p, q - 1, sc) + sc.indel))

StripGaps(s) == SelectSeq(s, LAMBDA x : x # GAP)

\* C1: the aligned pair trace_matrix returns on the filled matrix is an
\* optimal global alignment: its column scores sum to cell(m, n), which is the
\* best score over all global alignments.
C1_TraceIsOptimal ==
    pc = "done" =>
        /\ Len(result.value[1]) = Len(result.value[2])
        /\ AlignmentScore(result.value[1], result.value[2], scoring)
               = matrix[Len(seq2_array)][Len(seq1_array)]
        /\ matrix[Len(seq2_array)][Len(seq1_array)]
               = OptScore(seq1_array, seq2_array, Len(seq1_array), Len(seq2_array), scoring)

\* C2: round trip: on any matrix of the documented shape, stripping the gap
\* markers of row 0 of the result gives seq1, of row 1 gives seq2, and no
\* column is a gap in both rows.
C2_RoundTrip ==
    pc = "done" =>
        /\ StripGaps(result.value[1]) = seq1_array
        /\ StripGaps(result.value[2]) = seq2_array
        /\ Len(result.value[1]) = Len(result.value[2])
        /\ \A k \in 1 .. Len(result.value[1]) : ~(result.value[1][k] = GAP /\ result.value[2][k] = GAP)

C2_Witness ==
    /\ pc = "done"
    /\ Len(seq1_array) = 2 /\ Len(seq2_array) = 2
    /\ \E k \in 1 .. Len(result.value[1]) : result.value[1][k] = GAP
    /\ \E k \in 1 .. Len(result.value[2]) : result.value[2][k] = GAP
    /\ \E k \in 1 .. Len(result.value[1]) : result.value[1][k] # GAP /\ result.value[2][k] # GAP

\* C3: on a zero matrix of the documented shape fill_matrix returns the
\* matrix of the recurrence: cell(0,0) = 0, the first column and row are
\* multiples of indel, every interior cell is the maximum of its three
\* predecessor scores; for every scoring, zero and positive indel included.
C3_FillRecurrence ==
    pc # "fill" =>
        /\ pc # "raised"
        /\ ShapeOK
        /\ matrix[0][0] = 0
        /\ \A r \in 1 .. Len(seq2_array) : matrix[r][0] = r * scoring.indel
        /\ \A c \in 1 .. Len(seq1_array) : matrix[0][c] = c * scoring.indel
        /\ \A r \in 1 .. Len(seq2_array), c \in 1 .. Len(seq1_array) :
              matrix[r][c] =
                  Max(matrix[r - 1][c - 1]
                          + (IF seq2_array[r] = seq1_array[c] THEN scoring.match
                                                              ELSE scoring.mismatch),
                      Max(matrix[r - 1][c] + scoring.indel,
                          matrix[r][c - 1] + scoring.indel))

C3_Witness ==
    /\ pc = "trace"
    /\ scoring.indel = 1
    /\ Len(seq1_array) >= 2 /\ Len(seq2_array) >= 2
    /\ \E r \in 1 .. Len(seq2_array), c \in 1 .. Len(seq1_array) :
          /\ seq2_array[r] # seq1_array[c]
          /\ matrix[r][c] > matrix[r - 1][c - 1] + scoring.mismatch

\* C4: the traceback loop terminates, every iteration strictly decreases
\* i + j, and the two returned sequences have one length L with
\* max(len(A), len(B)) <= L <= len(A) + len(B).
C4_TraceTerminates ==
    /\ [][TraceLoop => (i' + j' < i + j /\ i' >= 0 /\ j' >= 0)]_vars
    /\ [](pc = "done" =>
            /\ Len(result.value[1]) = Len(result.value[2])
            /\ Len(result.value[1]) >= Max(Len(seq1_array), Len(seq2_array))
            /\ Len(result.value[1]) <= Len(seq1_array) + Len(seq2_array))
    /\ <>(pc = "done")

C4_Witness ==
    /\ pc = "done"
    /\ Len(result.value[1]) > Max(Len(seq1_array), Len(seq2_array))
    /\ Len(result.value[1]) < Len(seq1_array) + Len(seq2_array)

\* C5: when the matrix is not (len(seq2)+1) x (len(seq1)+1), fill_matrix and
\* trace_matrix reject the call; neither returns a matrix or an aligned pair.
C5_DimensionMismatchRejected ==
    pc \in {"trace", "trace_loop", "done"} => ShapeOK

TakenMove ==
    IF i' = i - 1 /\ j' = j - 1 THEN "diag"
    ELSE IF i' = i /\ j' = j - 1 THEN "left"
    ELSE IF i' = i - 1 /\ j' = j THEN "up"
    ELSE "none"

DiagEligible == \/ matrix[i][j] = matrix[i - 1][j - 1] + scoring.match
                \/ matrix[i][j] = matrix[i - 1][j - 1] + scoring.mismatch

LeftEligible == matrix[i][j] = matrix[i][j - 1] + scoring.indel

UpEligible == matrix[i][j] = matrix[i - 1][j] + scoring.indel

\* C8: for every scoring, at an interior cursor trace_matrix moves diagonally
\* exactly when cell = diag + match or cell = diag + mismatch, otherwise left
\* exactly when cell = left + indel, and up only otherwise.
C8_MoveByScoring ==
    [][(TraceLoop /\ i > 0 /\ j > 0) =>
          TakenMove = (IF DiagEligible THEN "diag"
                       ELSE IF LeftEligible THEN "left" ELSE "up")]_vars

\* C9: under the default scoring an eligible diagonal move is taken even when
\* left or up also reproduce the cell; when the diagonal is not eligible and
\* both left and up are, left is taken; "AG" against "AG" aligns without gap.
C9_TieBreak ==
    /\ [][(TraceLoop /\ i > 0 /\ j > 0 /\ scoring = DefaultScoring) =>
             /\ DiagEligible => TakenMove = "diag"
             /\ (~DiagEligible /\ LeftEligible /\ UpEligible) => TakenMove = "left"]_vars
    /\ [](( /\ pc = "done" /\ scoring = DefaultScoring
            /\ seq1_array = <<"A", "G">> /\ seq2_array = <<"A", "G">> )
          => result.value = << <<"A", "G">>, <<"A", "G">> >>)

\* a visited cell where the diagonal and the left move both reproduce the
\* score, and the traceback has finished
C9_Witness ==
    /\ pc = "done"
    /\ scoring = DefaultScoring
    /\ \E r \in 1 .. Len(seq2_array), c \in 1 .. Len(seq1_array) :
          /\ matrix[r][c] = matrix[r - 1][c - 1] - 1
          /\ matrix[r][c] = matrix[r][c - 1] - 1
          /\ \E k \in 1 .. Len(result.value[1]) :
                /\ result.value[1][k] = seq1_array[c] /\ result.value[2][k] = seq2_array[r]
                /\ Len(StripGaps(SubSeq(result.value[1], 1, k))) = c
                /\ Len(StripGaps(SubSeq(result.value[2], 1, k))) = r

\* C10: an empty sequence is no error: against a sequence of length k the
\* result has k columns, each a symbol of that sequence, in order, against a
\* gap marker, and cell(m, n) = k * indel.
C10_EmptyInput ==
    (seq1_array = <<>> \/ seq2_array = <<>>) =>
        /\ pc # "raised"
        /\ pc = "done" =>
            LET k == Len(seq1_array) + Len(seq2_array)
                gaps == [p \in 1 .. k |-> GAP]
            IN  /\ result.value = IF seq1_array = <<>> THEN <<gaps, seq2_array>>
                                                 ELSE <<seq1_array, gaps>>
                /\ matrix[Len(seq2_array)][Len(seq1_array)] = k * scoring.indel

C10_Witness ==
    /\ pc = "done"
    /\ seq1_array = <<>> /\ seq2_array = <<"A", "B", "C">>
    /\ scoring = DefaultScoring
    /\ result.value = << <<"-", "-", "-">>, <<"A", "B", "C">> >>
    /\ matrix[3][0] = -3

(***************************************************************************)
(* Properties of the application.                                          *)
(***************************************************************************)
EqualLengths(seqList) ==
    \A a, b \in 1 .. Len(seqList) : Len(seqList[a]) = Len(seqList[b])

\* C6: run returns 2 when the file is not found, 4 when the input has no FASTA
\* entry or its sequences have unequal lengths, 3 when the reference
\* identifier is absent, 0 only otherwise; a non-zero exit prints no table and
\* writes no CSV.  (Unequal lengths with the reference absent may be 3 or 4.)
C6_ExitCodes ==
    pc = "exited" =>
        LET parsed    == parse_fa(fs.text)
            malformed == parsed.error # ""
            unequal   == ~malformed /\ ~EqualLengths(parsed.value.sequences)
            refAbsent == ~malformed /\ \A k \in 1 .. Len(parsed.value.headers) :
                                           parsed.value.headers[k] # ref_id
        IN  /\ ~fs.exists => exit_code = 2
            /\ (fs.exists /\ malformed) => exit_code = 4
            /\ (fs.exists /\ unequal /\ ~refAbsent) => exit_code = 4
            /\ (fs.exists /\ unequal /\ refAbsent) => exit_code \in {3, 4}
            /\ (fs.exists /\ ~malformed /\ ~unequal /\ refAbsent) => exit_code = 3
            /\ (fs.exists /\ ~malformed /\ ~unequal /\ ~refAbsent) => exit_code = 0
            /\ exit_code # 0 => (stdout = <<>> /\ csv = <<>>)

ComparedSites(seq, ref) == {p \in 1 .. Len(seq) : seq[p] # GAP /\ ref[p] # GAP}

\* C7: for a mapping of identifiers to equal-length sequences that contains
\* ref_id, compare_to_reference gives every entry its length, the number of
\* positions where neither it nor the reference has a gap, and the number of
\* those positions where the two differ; so 0 <= mismatches <= compared_sites
\* <= length, the reference has no mismatch, and {Ref: ATGC, S1: AT-T} gives
\* S1 length 4, compared_sites 3, mismatches 1.
C7_CompareToReference ==
    (pc = "report" /\ EqualLengths([k \in 1 .. Len(seqs) |-> seqs[k].seq])) =>
        LET ref == Lookup(seqs, ref_id)
        IN  /\ Len(stats) = Len(seqs)
            /\ \A n \in 1 .. Len(seqs) :
                  LET seq   == seqs[n].seq
                      sites == ComparedSites(seq, ref)
                  IN  /\ stats[n].id = seqs[n].id
                      /\ stats[n].length = Len(seq)
                      /\ stats[n].compared_sites = Cardinality(sites)
                      /\ stats[n].mismatches = Cardinality({p \in sites : seq[p] # ref[p]})
                      /\ 0 <= stats[n].mismatches
                      /\ stats[n].mismatches <= stats[n].compared_sites
                      /\ stats[n].compared_sites <= stats[n].length
                      /\ seqs[n].id = ref_id => stats[n].mismatches = 0
            /\ seqs = << [id |-> <<"R", "e", "f">>, seq |-> <<"A", "T", "G", "C">>],
                         [id |-> <<"S", "1">>, seq |-> <<"A", "T", "-", "T">>] >>
                  /\ ref_id = <<"R", "e", "f">>
               => /\ stats[2].length = 4
                  /\ stats[2].compared_sites = 3
                  /\ stats[2].mismatches = 1
                  /\ stats[2].mutation_rate = 333333

C7_Witness ==
    /\ pc = "report"
    /\ ref_id = <<"R", "e", "f">>
    /\ seqs = << [id |-> <<"R", "e", "f">>, seq |-> <<"A", "T", "G", "C">>],
                 [id |-> <<"S", "1">>, seq |-> <<"A", "T", "-", "T">>] >>
    /\ stats[2] = [id |-> <<"S", "1">>, length |-> 4, compared_sites |-> 3,
                   mismatches |-> 1, mutation_rate |-> 333333]

====
